---------------------------- MODULE Spec2Model ----------------------------
(***************************************************************************)
(* tools/build-wheel.py: the script that assembles the SLING Python wheel. *)
(*                                                                         *)
(* Python 2 byte strings are modelled as TLA+ strings (Len, \o and SubSeq  *)
(* act on them as on sequences of characters).  The archive, the RECORD    *)
(* buffer, the source files on disk and the script's position are the      *)
(* state; every statement of the script that touches them is one action.   *)
(* hashlib.sha256 is modelled by a 16-bit rolling digest with the same     *)
(* init/update/digest interface; base64 encoding, rstrip, str(), replace   *)
(* and the 'in' test are computed character by character.                  *)
(***************************************************************************)
EXTENDS Integers, Sequences, FiniteSets, TLC

(***************************************************************************)
(* Bounds of the model.                                                    *)
(***************************************************************************)
\* how many times another process may rewrite or remove a source file
\* while the script runs
MaxTouch == 1
\* longest file content and largest block size of the checksum runs
MaxLen == 3
MaxBlock == 3

(***************************************************************************)
(* Python string operations.                                               *)
(***************************************************************************)
Min(a, b) == IF a < b THEN a ELSE b

\* s[i] (1-based), as a one-character string
Char(s, i) == SubSeq(s, i, i)

\* sub in s
In(sub, s) ==
    \E i \in 1..(Len(s) - Len(sub) + 1) : SubSeq(s, i, i + Len(sub) - 1) = sub

\* s.find(sub, i): the first index >= i at which sub occurs in s, 0 if none
Find(s, sub, i) ==
    LET at == {j \in i..(Len(s) - Len(sub) + 1) : SubSeq(s, j, j + Len(sub) - 1) = sub}
    IN  IF at = {} THEN 0 ELSE CHOOSE j \in at : \A k \in at : j <= k

\* s.replace(old, new): every non-overlapping occurrence, left to right
RECURSIVE ReplaceFrom(_, _, _, _)
ReplaceFrom(s, old, new, i) ==
    LET j == Find(s, old, i)
    IN  IF j = 0
        THEN SubSeq(s, i, Len(s))
        ELSE SubSeq(s, i, j - 1) \o new \o ReplaceFrom(s, old, new, j + Len(old))

Replace(s, old, new) == ReplaceFrom(s, old, new, 1)

\* s.rstrip(ch)
RECURSIVE Rstrip(_, _)
Rstrip(s, ch) ==
    IF Len(s) > 0 /\ Char(s, Len(s)) = ch
    THEN Rstrip(SubSeq(s, 1, Len(s) - 1), ch)
    ELSE s

Digits == "0123456789"

\* str(n) for n >= 0
RECURSIVE Str(_)
Str(n) ==
    IF n < 10
    THEN Char(Digits, n + 1)
    ELSE Str(n \div 10) \o Char(Digits, (n % 10) + 1)

\* the ASCII characters ' ' (32) to '_' (95) and 'a' (97) to '~' (126), in
\* code order
AsciiLow ==
    " !\"#$%&'()*+,-./0123456789:;<=>?@ABCDEFGHIJKLMNOPQRSTUVWXYZ[\\]^_"

AsciiHigh == "abcdefghijklmnopqrstuvwxyz{|}~"

OrdTable ==
    [c \in {Char(AsciiLow, i) : i \in 1..Len(AsciiLow)}
            \cup {Char(AsciiHigh, i) : i \in 1..Len(AsciiHigh)} \cup {"\n"} |->
        IF c = "\n" THEN 10
        ELSE IF \E i \in 1..Len(AsciiLow) : Char(AsciiLow, i) = c
        THEN 31 + (CHOOSE i \in 1..Len(AsciiLow) : Char(AsciiLow, i) = c)
        ELSE 96 + (CHOOSE i \in 1..Len(AsciiHigh) : Char(AsciiHigh, i) = c)]

\* ord(c)
Ord(c) == OrdTable[c]

(***************************************************************************)
(* hashlib.sha256 and base64.urlsafe_b64encode.                            *)
(***************************************************************************)
\* hashlib.sha256(): the fresh digest state
Sha256New == 27145

\* sha256.update(block): the state absorbs the block's bytes lo..hi one by
\* one, in order, 16 bits wide.  The range is halved, and the state tested
\* on entry, only to keep TLC's evaluation shallow: the bytes are absorbed
\* left to right.
RECURSIVE Sha256Absorb(_, _, _, _)
Sha256Absorb(h, block, lo, hi) ==
    IF h < 0 \/ lo > hi THEN h
    ELSE IF lo = hi THEN (h * 31 + Ord(Char(block, lo)) + 1) % 65536
    ELSE LET mid == (lo + hi) \div 2
         IN  Sha256Absorb(Sha256Absorb(h, block, lo, mid), block, mid + 1, hi)

Sha256Update(h, block) == Sha256Absorb(h, block, 1, Len(block))

\* sha256.digest(): the state as bytes, most significant first
Sha256Digest(h) == <<h \div 256, h % 256>>

\* the URL-safe base64 alphabet: '-' and '_' replace '+' and '/'
B64Alphabet ==
    "ABCDEFGHIJKLMNOPQRSTUVWXYZabcdefghijklmnopqrstuvwxyz0123456789-_"

B64Char(n) == Char(B64Alphabet, n + 1)

\* base64.urlsafe_b64encode(bytes): 3 bytes to 4 characters, the last
\* group padded with '='
RECURSIVE B64EncodeFrom(_, _)
B64EncodeFrom(bytes, i) ==
    LET left == Len(bytes) - i + 1
    IN  IF left <= 0 THEN ""
        ELSE IF left = 1
        THEN B64Char(bytes[i] \div 4) \o B64Char((bytes[i] % 4) * 16) \o "=="
        ELSE IF left = 2
        THEN B64Char(bytes[i] \div 4)
             \o B64Char((bytes[i] % 4) * 16 + bytes[i + 1] \div 16)
             \o B64Char((bytes[i + 1] % 16) * 4) \o "="
        ELSE B64Char(bytes[i] \div 4)
             \o B64Char((bytes[i] % 4) * 16 + bytes[i + 1] \div 16)
             \o B64Char((bytes[i + 1] % 16) * 4 + bytes[i + 2] \div 64)
             \o B64Char(bytes[i + 2] % 64)
             \o B64EncodeFrom(bytes, i + 3)

urlsafe_b64encode(bytes) == B64EncodeFrom(bytes, 1)

\* f.read(block_size) at offset pos: at most block_size bytes, '' at the end
FileReadDropsTail(data, pos, n) ==
    IF pos + n <= Len(data) THEN SubSeq(data, pos + 1, pos + n) ELSE ""

FileRead(data, pos, n) == SubSeq(data, pos + 1, Min(pos + n, Len(data)))

\* the default block size of sha256_checksum
block_size == 65536

\* the loop of sha256_checksum: read blocks until the empty one
RECURSIVE ReadLoop(_, _, _, _)
ReadLoop(data, pos, n, h) ==
    LET block == FileRead(data, pos, n)
    IN  IF block = ""
        THEN h
        ELSE ReadLoop(data, pos + Len(block), n, Sha256Update(h, block))

\* sha256_checksum(filename, block_size) on a file holding data
sha256_checksum(data, n) ==
    Rstrip(urlsafe_b64encode(Sha256Digest(ReadLoop(data, 0, n, Sha256New))), "=")

\* sha256_content_checksum(data)
sha256_content_checksum(data) ==
    Rstrip(urlsafe_b64encode(Sha256Digest(Sha256Update(Sha256New, data))), "=")

(***************************************************************************)
(* Wheel package information (lines 48-69, 76-108).                        *)
(***************************************************************************)
package == "sling"

version == "1.0.0"

dist_dir == package \o "-" \o version \o ".dist-info"

data_dir == package \o "-" \o version \o ".data/purelib"

record_filename == dist_dir \o "/RECORD"

wheel_dir == "/tmp"

\* the values of sys.platform the script is run under
Platforms == {"darwin", "linux2"}

wheel_basename(sys_platform) ==
    IF In("darwin", sys_platform)
    THEN package \o "-" \o version \o "-py27-none-any.whl"
    ELSE package \o "-" \o version \o "-cp27-none-linux_x86_64.whl"

wheel_filename(sys_platform) == wheel_dir \o "/" \o wheel_basename(sys_platform)

files_collide ==
    [source \in {"bazel-bin/sling/pyapi/pysling.so", "python/__init__.py",
                 "python/nlp/__init__.py", "python/nlp/document.py",
                 "python/nlp/parser.py"} |->
        CASE source = "bazel-bin/sling/pyapi/pysling.so" -> "$DATA$/sling/pysling.so"
          [] source = "python/__init__.py" -> "$DATA$/sling/__init__.py"
          [] source = "python/nlp/__init__.py" -> "$DATA$/sling/__init__.py"
          [] source = "python/nlp/document.py" -> "$DATA$/sling/nlp/document.py"
          [] source = "python/nlp/parser.py" -> "$DATA$/sling/nlp/parser.py"]

\* Files to distribute in wheel: source |-> destination template
files ==
    [source \in {"bazel-bin/sling/pyapi/pysling.so", "python/__init__.py",
                 "python/nlp/__init__.py", "python/nlp/document.py",
                 "python/nlp/parser.py"} |->
        CASE source = "bazel-bin/sling/pyapi/pysling.so" -> "$DATA$/sling/pysling.so"
          [] source = "python/__init__.py" -> "$DATA$/sling/__init__.py"
          [] source = "python/nlp/__init__.py" -> "$DATA$/sling/nlp/__init__.py"
          [] source = "python/nlp/document.py" -> "$DATA$/sling/nlp/document.py"
          [] source = "python/nlp/parser.py" -> "$DATA$/sling/nlp/parser.py"]

Sources == DOMAIN files

wheel_metadata_filename == dist_dir \o "/WHEEL"

wheel_metadata_generic(sys_platform) ==
    "Wheel-Version: 1.0\nRoot-Is-Purelib: false\nTag: cp27-none-linux_x86_64"

wheel_metadata(sys_platform) ==
    IF In("darwin", sys_platform)
    THEN "Wheel-Version: 1.0\nRoot-Is-Purelib: false\nTag: py27-none-any"
    ELSE "Wheel-Version: 1.0\nRoot-Is-Purelib: false\nTag: cp27-none-linux_x86_64"

package_metadata_filename == dist_dir \o "/METADATA"

package_metadata ==
    Replace("Metadata-Version: 2.0\n"
            \o "Name: sling\n"
            \o "Version: $VERSION$\n"
            \o "Summary: SLING frame semantic parsing framework\n"
            \o "Home-page: https://github.com/google/sling\n"
            \o "Author: Google\n"
            \o "Author-email: sling-team@google.com\n"
            \o "License: Apache 2.0\n"
            \o "Download-URL: https://github.com/google/sling/releases\n"
            \o "Platform: UNKNOWN\n"
            \o "Classifier: Programming Language :: Python\n"
            \o "Classifier: Programming Language :: Python :: 2\n"
            \o "Classifier: Programming Language :: Python :: 2.7\n"
            \o "\n"
            \o "Google SLING frame semantic parsing framework\n",
            "$VERSION$", version)

\* destination of a source: the template with its placeholders replaced
DestinationKeepsData(src) == Replace(files[src], "$INFO$", dist_dir)

Destination(src) ==
    Replace(Replace(files[src], "$INFO$", dist_dir), "$DATA$", data_dir)

\* one line of RECORD
RecordLine(name, sum, size) == name \o ",sha256=" \o sum \o "," \o Str(size) \o "\n"

(***************************************************************************)
(* The source files on disk.                                               *)
(***************************************************************************)
\* what a source file may hold
FileContents == {"a", "ab"}

File(data) == [exists |-> TRUE, data |-> data]

Missing == [exists |-> FALSE, data |-> ""]

FileStates == {File(d) : d \in FileContents} \cup {Missing}

(***************************************************************************)
(* State.                                                                  *)
(***************************************************************************)
VARIABLES
    platform,     \* sys.platform
    pc,           \* the statement the script is at
    disk,         \* the source files: source |-> [exists, data]
    touched,      \* how often another process changed a source file
    output,       \* the file at wheel_filename: absent, previous, partial, complete
    wheel,        \* the ZipFile: [filename, fp, entries]
    record,       \* the RECORD text accumulated so far
    todo,         \* the keys of files the loop has not yet visited
    source,       \* loop variable
    destination,  \* files[source] with the placeholders replaced
    size,         \* os.path.getsize(source)
    checksum,     \* sha256_checksum(source)
    stdout,       \* the lines printed
    f_data,       \* sha256_checksum alone: the content of the file read
    f_pos,        \*   the file offset
    bs,           \*   the block_size argument
    sha,          \*   the digest state
    fed,          \*   the bytes passed to sha256.update so far
    result,       \*   the value returned
    sum_pc        \*   where the call is

runvars == <<platform, pc, disk, touched, output, wheel, record, todo, source,
             destination, size, checksum, stdout>>

sumvars == <<f_data, f_pos, bs, sha, fed, result, sum_pc>>

vars == <<runvars, sumvars>>

\* the entry names of the archive, in the order written
Names == [i \in 1..Len(wheel.entries) |-> wheel.entries[i].name]

\* ZipFile.writestr(name, data) and ZipFile.write(filename, name): one more
\* entry at the end of the archive
AddEntry(w, name, data) ==
    [w EXCEPT !.entries = Append(@, [name |-> name, data |-> data])]

(***************************************************************************)
(* The script, statement by statement.                                     *)
(***************************************************************************)
\* no checksum call of its own is running
SumIdle ==
    /\ f_data = "" /\ f_pos = 0 /\ bs = 1 /\ sha = Sha256New
    /\ fed = "" /\ result = "" /\ sum_pc = "idle"

Init ==
    /\ platform \in Platforms
    /\ pc = "open"
    /\ disk = [s \in Sources |-> File("a")]
    /\ touched = 0
    /\ output \in {"absent", "previous"}
    /\ wheel = [filename |-> "", fp |-> "none", entries |-> <<>>]
    /\ record = ""
    /\ todo = Sources
    /\ source = ""
    /\ destination = ""
    /\ size = 0
    /\ checksum = ""
    /\ stdout = <<>>
    /\ SumIdle

\* line 72-73: zipfile.ZipFile(wheel_filename, "w") creates or truncates the
\* output file; record = ""
OpenWheel ==
    /\ pc = "open"
    /\ output' = "partial"
    /\ wheel' = [filename |-> wheel_filename(platform), fp |-> "open",
                 entries |-> <<>>]
    /\ record' = ""
    /\ pc' = "wheel_record"
    /\ UNCHANGED <<platform, disk, touched, todo, source, destination, size,
                   checksum, stdout, sumvars>>

\* line 72 raising IOError: the output location cannot be written
OpenWheelFails ==
    /\ pc = "open"
    /\ pc' = "aborted"
    /\ UNCHANGED <<platform, disk, touched, output, wheel, record, todo, source,
                   destination, size, checksum, stdout, sumvars>>

\* lines 86-88
WheelRecord ==
    /\ pc = "wheel_record"
    /\ record' = record \o RecordLine(wheel_metadata_filename,
                                      sha256_content_checksum(wheel_metadata(platform)),
                                      Len(wheel_metadata(platform)))
    /\ pc' = "wheel_write"
    /\ UNCHANGED <<platform, disk, touched, output, wheel, todo, source,
                   destination, size, checksum, stdout, sumvars>>

\* line 89
WheelWrite ==
    /\ pc = "wheel_write"
    /\ wheel' = AddEntry(wheel, wheel_metadata_filename, wheel_metadata(platform))
    /\ pc' = "package_record"
    /\ UNCHANGED <<platform, disk, touched, output, record, todo, source,
                   destination, size, checksum, stdout, sumvars>>

\* lines 110-112 left out
PackageRecordSkipped ==
    /\ pc = "package_record"
    /\ pc' = "package_write"
    /\ UNCHANGED <<platform, disk, touched, output, wheel, record, todo, source,
                   destination, size, checksum, stdout, sumvars>>

\* lines 110-112
PackageRecord ==
    /\ pc = "package_record"
    /\ record' = record \o RecordLine(package_metadata_filename,
                                      sha256_content_checksum(package_metadata),
                                      Len(package_metadata))
    /\ pc' = "package_write"
    /\ UNCHANGED <<platform, disk, touched, output, wheel, todo, source,
                   destination, size, checksum, stdout, sumvars>>

\* line 113
PackageWrite ==
    /\ pc = "package_write"
    /\ wheel' = AddEntry(wheel, package_metadata_filename, package_metadata)
    /\ pc' = "loop"
    /\ UNCHANGED <<platform, disk, touched, output, record, todo, source,
                   destination, size, checksum, stdout, sumvars>>

\* lines 116-121: the next key of the dict, in the dict's own order
NextFile ==
    /\ pc = "loop"
    /\ \E s \in todo :
        /\ source' = s
        /\ todo' = todo \ {s}
        /\ destination' = Destination(s)
        /\ stdout' = Append(stdout, "Install " \o s \o " as " \o Destination(s))
    /\ pc' = "getsize"
    /\ UNCHANGED <<platform, disk, touched, output, wheel, record, size,
                   checksum, sumvars>>

\* line 124: os.path.getsize raises OSError for a missing file
GetSize ==
    /\ pc = "getsize"
    /\ IF disk[source].exists
       THEN size' = Len(disk[source].data) /\ pc' = "checksum"
       ELSE size' = size /\ pc' = "aborted"
    /\ UNCHANGED <<platform, disk, touched, output, wheel, record, todo, source,
                   destination, checksum, stdout, sumvars>>

\* line 125: open raises IOError for a missing file
Checksum ==
    /\ pc = "checksum"
    /\ IF disk[source].exists
       THEN /\ checksum' = sha256_checksum(disk[source].data, block_size)
            /\ pc' = "record"
       ELSE checksum' = checksum /\ pc' = "aborted"
    /\ UNCHANGED <<platform, disk, touched, output, wheel, record, todo, source,
                   destination, size, stdout, sumvars>>

\* line 126 with = in place of +=
RecordFileAssigns ==
    /\ pc = "record"
    /\ record' = RecordLine(destination, checksum, size)
    /\ pc' = "write"
    /\ UNCHANGED <<platform, disk, touched, output, wheel, todo, source,
                   destination, size, checksum, stdout, sumvars>>

\* line 126
RecordFile ==
    /\ pc = "record"
    /\ record' = record \o RecordLine(destination, checksum, size)
    /\ pc' = "write"
    /\ UNCHANGED <<platform, disk, touched, output, wheel, todo, source,
                   destination, size, checksum, stdout, sumvars>>

\* line 129 with the error of a missing file swallowed
WriteFileSkipsMissing ==
    /\ pc = "write"
    /\ IF disk[source].exists
       THEN wheel' = AddEntry(wheel, destination, disk[source].data)
       ELSE wheel' = wheel
    /\ pc' = "loop"
    /\ UNCHANGED <<platform, disk, touched, output, record, todo, source,
                   destination, size, checksum, stdout, sumvars>>

\* line 129: wheel.write reads the source again and stores its bytes; it
\* raises for a missing file
WriteFile ==
    /\ pc = "write"
    /\ IF disk[source].exists
       THEN /\ wheel' = AddEntry(wheel, destination, disk[source].data)
            /\ pc' = "loop"
       ELSE wheel' = wheel /\ pc' = "aborted"
    /\ UNCHANGED <<platform, disk, touched, output, record, todo, source,
                   destination, size, checksum, stdout, sumvars>>

\* lines 132-133 moved into the loop body
AddRecordInLoop ==
    /\ pc = "loop"
    /\ stdout' = Append(stdout, "Add " \o record_filename)
    /\ wheel' = AddEntry(wheel, record_filename, record)
    /\ pc' = IF todo = {} THEN "close" ELSE "loop"
    /\ UNCHANGED <<platform, disk, touched, output, record, todo, source,
                   destination, size, checksum, sumvars>>

\* lines 132-133, once the loop has visited every key
AddRecord ==
    /\ pc = "loop"
    /\ todo = {}
    /\ stdout' = Append(stdout, "Add " \o record_filename)
    /\ wheel' = AddEntry(wheel, record_filename, record)
    /\ pc' = "close"
    /\ UNCHANGED <<platform, disk, touched, output, record, todo, source,
                   destination, size, checksum, sumvars>>

\* line 136
Close ==
    /\ pc = "close"
    /\ wheel' = [wheel EXCEPT !.fp = "closed"]
    /\ output' = "complete"
    /\ pc' = "report"
    /\ UNCHANGED <<platform, disk, touched, record, todo, source, destination,
                   size, checksum, stdout, sumvars>>

\* line 137
Report ==
    /\ pc = "report"
    /\ stdout' = Append(stdout, "Wheel written to " \o wheel.filename)
    /\ pc' = "done"
    /\ UNCHANGED <<platform, disk, touched, output, wheel, record, todo, source,
                   destination, size, checksum, sumvars>>

\* Another process rewrites or removes the source file the script is working
\* on.  The script sees the disk only at its three reads (lines 124, 125,
\* 129), so the change is taken right before one of them.
Touch ==
    /\ pc \in {"getsize", "checksum", "write"}
    /\ touched < MaxTouch
    /\ \E f \in FileStates \ {disk[source]} :
        disk' = [disk EXCEPT ![source] = f]
    /\ touched' = touched + 1
    /\ UNCHANGED <<platform, pc, output, wheel, record, todo, source,
                   destination, size, checksum, stdout, sumvars>>

Next ==
    \/ OpenWheel
    \/ OpenWheelFails
    \/ WheelRecord
    \/ WheelWrite
    \/ PackageRecord
    \/ PackageWrite
    \/ NextFile
    \/ GetSize
    \/ Checksum
    \/ RecordFile
    \/ WriteFile
    \/ AddRecord
    \/ Close
    \/ Report
    \/ Touch

Spec == Init /\ [][Next]_vars

(***************************************************************************)
(* sha256_checksum on its own, block by block (lines 34-40).               *)
(***************************************************************************)
\* the bytes of the files checksummed
SumBytes == {"a", "b"}

\* all byte strings of length at most n
RECURSIVE BytesUpTo(_)
BytesUpTo(n) ==
    IF n = 0
    THEN {""}
    ELSE LET shorter == BytesUpTo(n - 1)
         IN  shorter \cup {s \o c : s \in shorter, c \in SumBytes}

\* the script itself is not running
RunIdle ==
    /\ platform = "linux2"
    /\ pc = "idle"
    /\ disk = [s \in Sources |-> File("a")]
    /\ touched = 0
    /\ output = "absent"
    /\ wheel = [filename |-> "", fp |-> "none", entries |-> <<>>]
    /\ record = ""
    /\ todo = Sources
    /\ source = ""
    /\ destination = ""
    /\ size = 0
    /\ checksum = ""
    /\ stdout = <<>>

InitSum ==
    /\ RunIdle
    /\ f_data \in BytesUpTo(MaxLen)
    /\ bs \in 1..MaxBlock
    /\ f_pos = 0
    /\ sha = Sha256New
    /\ fed = ""
    /\ result = ""
    /\ sum_pc = "call"

\* lines 36-37: a fresh digest, the file opened at offset 0
SumOpen ==
    /\ sum_pc = "call"
    /\ sha' = Sha256New
    /\ f_pos' = 0
    /\ sum_pc' = "read"
    /\ UNCHANGED <<f_data, bs, fed, result, runvars>>

\* lines 38-39: one turn of the loop; the empty block ends it
SumRead ==
    /\ sum_pc = "read"
    /\ LET block == FileRead(f_data, f_pos, bs)
       IN  IF block = ""
           THEN /\ sum_pc' = "eof"
                /\ UNCHANGED <<sha, f_pos, fed>>
           ELSE /\ sha' = Sha256Update(sha, block)
                /\ f_pos' = f_pos + Len(block)
                /\ fed' = fed \o block
                /\ sum_pc' = "read"
    /\ UNCHANGED <<f_data, bs, result, runvars>>

\* line 40
SumReturn ==
    /\ sum_pc = "eof"
    /\ result' = Rstrip(urlsafe_b64encode(Sha256Digest(sha)), "=")
    /\ sum_pc' = "returned"
    /\ UNCHANGED <<f_data, bs, f_pos, sha, fed, runvars>>

NextSum ==
    \/ SumOpen
    \/ SumRead
    \/ SumReturn

SpecSum == InitSum /\ [][NextSum]_vars

(***************************************************************************)
(* Reading an archive back: its entries and the lines of its RECORD.       *)
(***************************************************************************)
Max(a, b) == IF a > b THEN a ELSE b

\* the first index >= i of text at which ch stands, Len(text) + 1 if none
RECURSIVE ScanTo(_, _, _)
ScanTo(text, ch, i) ==
    IF i > Len(text) \/ Char(text, i) = ch THEN i ELSE ScanTo(text, ch, i + 1)

\* the lines of text from index i on, each ended by a newline
RECURSIVE LinesFrom(_, _)
LinesFrom(text, i) ==
    IF i > Len(text)
    THEN <<>>
    ELSE LET end == ScanTo(text, "\n", i)
         IN  <<SubSeq(text, i, end - 1)>> \o LinesFrom(text, end + 1)

\* int(s) for a string of decimal digits
RECURSIVE ParseInt(_)
ParseInt(s) ==
    IF s = ""
    THEN 0
    ELSE ParseInt(SubSeq(s, 1, Len(s) - 1)) * 10 + Find(Digits, Char(s, Len(s)), 1) - 1

\* '<path>,sha256=<sum>,<size>' taken apart at its commas
ParseLine(line) ==
    LET first == ScanTo(line, ",", 1)
        second == ScanTo(line, ",", first + 1)
    IN  [path |-> SubSeq(line, 1, first - 1),
         algo |-> SubSeq(line, first + 1, first + 7),
         sum |-> SubSeq(line, first + 8, second - 1),
         size |-> ParseInt(SubSeq(line, second + 1, Len(line)))]

\* the manifest a RECORD text declares, line by line
Manifest(text) ==
    LET lines == LinesFrom(text, 1)
    IN  [k \in DOMAIN lines |-> ParseLine(lines[k])]

Range(f) == {f[i] : i \in DOMAIN f}

\* the paths a RECORD text lists: each line up to its first comma
RECURSIVE PathsFrom(_, _)
PathsFrom(text, i) ==
    IF i > Len(text)
    THEN <<>>
    ELSE LET comma == ScanTo(text, ",", i)
             end == ScanTo(text, "\n", comma)
         IN  <<SubSeq(text, i, comma - 1)>> \o PathsFrom(text, end + 1)

Paths(text) == PathsFrom(text, 1)

HasEntry(name) == \E i \in DOMAIN wheel.entries : wheel.entries[i].name = name

\* the bytes stored under name (the first entry of that name)
EntryData(name) ==
    wheel.entries[CHOOSE i \in DOMAIN wheel.entries :
                      /\ wheel.entries[i].name = name
                      /\ \A j \in 1..(i - 1) : wheel.entries[j].name # name].data

\* the resolved destinations of the configured files
DestinationSet == {Destination(s) : s \in Sources}

\* the archive's entries other than RECORD, in the order written
Written == SelectSeq(Names, LAMBDA n : n # record_filename)

\* a path or text that still holds a placeholder
Unresolved(s) == In("$DATA$", s) \/ In("$INFO$", s)

(***************************************************************************)
(* C1.  After a completed run every line of RECORD declares the size and   *)
(* the checksum of the bytes stored in the archive under its path.         *)
(***************************************************************************)
ManifestMatchesArchive ==
    pc = "done" =>
        LET m == Manifest(EntryData(record_filename))
        IN  \A k \in DOMAIN m :
                /\ HasEntry(m[k].path)
                /\ m[k].algo = "sha256="
                /\ m[k].size = Len(EntryData(m[k].path))
                /\ m[k].sum = sha256_content_checksum(EntryData(m[k].path))

\* the same, for the runs during which no source file was changed
ManifestMatchesUntouched == touched = 0 => ManifestMatchesArchive

(***************************************************************************)
(* C2.  After a completed run the paths RECORD lists are exactly the       *)
(* archive's entries other than RECORD, one line each: WHEEL, METADATA and *)
(* every configured file have a line, RECORD has none.                     *)
(***************************************************************************)
ManifestListsArchive ==
    pc = "done" =>
        LET paths == Paths(EntryData(record_filename))
        IN  /\ Range(paths) = Range(Names) \ {record_filename}
            /\ \A j, k \in DOMAIN paths : j # k => paths[j] # paths[k]
            /\ Len(paths) = Len(wheel.entries) - 1
            /\ wheel_metadata_filename \in Range(paths)
            /\ package_metadata_filename \in Range(paths)
            /\ DestinationSet \subseteq Range(paths)
            /\ record_filename \notin Range(paths)

ManifestListsArchiveWitness ==
    /\ pc = "done"
    /\ Len(Paths(EntryData(record_filename))) = 7

(***************************************************************************)
(* C3.  A completed run leaves exactly 8 entries: WHEEL, METADATA, the 5   *)
(* files and RECORD.  RECORD is the last entry in every state that has it  *)
(* (so nothing is added after it), and the archive is closed only with     *)
(* RECORD in it.                                                           *)
(***************************************************************************)
EightEntriesRecordLast ==
    /\ pc = "done" =>
        /\ Len(wheel.entries) = 8
        /\ Range(Names) = {wheel_metadata_filename, package_metadata_filename,
                           record_filename} \cup DestinationSet
    /\ \A i \in DOMAIN Names : Names[i] = record_filename => i = Len(Names)
    /\ wheel.fp = "closed" => HasEntry(record_filename)

EightEntriesRecordLastWitness ==
    /\ pc = "done"
    /\ wheel.fp = "closed"
    /\ Names[8] = record_filename

(***************************************************************************)
(* C4.  The tag in the output file's name and the Tag line of WHEEL agree: *)
(* py27-none-any for a platform containing 'darwin',                       *)
(* cp27-none-linux_x86_64 for any other.                                   *)
(***************************************************************************)
\* the tag in '/tmp/sling-1.0.0-<tag>.whl'
FilenameTag(name) ==
    SubSeq(name, Len("/tmp/sling-1.0.0-") + 1, Len(name) - Len(".whl"))

\* text ends with the line 'Tag: <tag>'
EndsWithTag(text, tag) ==
    LET line == "\nTag: " \o tag
    IN  SubSeq(text, Len(text) - Len(line) + 1, Len(text)) = line

\* values sys.platform takes on the systems Python 2 runs on
KnownPlatforms ==
    {"darwin", "linux2", "linux3", "win32", "cygwin", "freebsd8", "sunos5", "os2"}

\* the tag both tests are to choose for a platform
TagFor(sys_platform) ==
    IF In("darwin", sys_platform) THEN "py27-none-any" ELSE "cp27-none-linux_x86_64"

\* C4: in the run, the name of the archive and the Tag line stored in WHEEL
\* carry the same tag, the one of the platform; and for every known platform
\* (looked at before the run starts) the name and the descriptor the script
\* computes carry that platform's tag
PlatformTagsAgree ==
    /\ HasEntry(wheel_metadata_filename) =>
        /\ EndsWithTag(EntryData(wheel_metadata_filename), FilenameTag(wheel.filename))
        /\ FilenameTag(wheel.filename) = TagFor(platform)
        /\ wheel.filename = "/tmp/sling-1.0.0-" \o FilenameTag(wheel.filename) \o ".whl"
    /\ pc = "open" =>
        \A p \in KnownPlatforms :
            /\ FilenameTag(wheel_filename(p)) = TagFor(p)
            /\ EndsWithTag(wheel_metadata(p), TagFor(p))

PlatformTagsAgreeWitness ==
    /\ platform = "darwin"
    /\ HasEntry(wheel_metadata_filename)
    /\ EndsWithTag(EntryData(wheel_metadata_filename), "py27-none-any")
    /\ wheel.filename = "/tmp/sling-1.0.0-py27-none-any.whl"

(***************************************************************************)
(* C5.  In every state no two entries of the archive have the same path;   *)
(* the resolved destinations are pairwise distinct and differ from the     *)
(* WHEEL, METADATA and RECORD paths (a fact of the configuration, looked   *)
(* at before the run starts).                                              *)
(***************************************************************************)
NoTwoEntriesCollide ==
    /\ \A i, j \in DOMAIN Names : i # j => Names[i] # Names[j]
    /\ pc = "open" =>
        /\ Cardinality(DestinationSet) = Cardinality(Sources)
        /\ DestinationSet \cap {wheel_metadata_filename, package_metadata_filename,
                                record_filename} = {}

NoTwoEntriesCollideWitness ==
    /\ Len(wheel.entries) = 8
    /\ DestinationSet \subseteq Range(Names)

(***************************************************************************)
(* C6.  A step of the script that reads a missing source aborts the run at *)
(* that file and changes nothing else; once aborted nothing changes any    *)
(* more: no later file is copied, RECORD is not written, the archive stays *)
(* open, 'Wheel written to' is not printed, the output file stays partial. *)
(***************************************************************************)
AbortedAt ==
    (pc = "aborted" /\ wheel.fp = "open") =>
        /\ ~HasEntry(record_filename)
        /\ ~HasEntry(destination)
        /\ output = "partial"
        /\ \A i \in DOMAIN stdout : stdout[i] # "Wheel written to " \o wheel.filename
        /\ Len(wheel.entries) = 2 + Cardinality(Sources \ todo) - 1

AbortStep ==
    /\ (pc \in {"getsize", "checksum", "write"} /\ ~disk[source].exists /\ pc' # pc) =>
        /\ pc' = "aborted"
        /\ UNCHANGED <<wheel, record, stdout, output, todo, source>>
    /\ pc = "aborted" => UNCHANGED <<pc, wheel, record, stdout, output, todo, source>>
    /\ AbortedAt'

\* C6: every step is an AbortStep: a read of a missing source aborts there,
\* an aborted run does nothing more, and the aborted state is as described
AbortAtMissingSource == [][AbortStep]_vars

AbortAtMissingSourceWitness ==
    /\ pc = "aborted"
    /\ wheel.fp = "open"
    /\ source \in Sources
    /\ ~disk[source].exists
    /\ Len(wheel.entries) = 4
    /\ Cardinality(todo) = 2

(***************************************************************************)
(* C7.  sha256_checksum feeds the digest every byte of the file once and   *)
(* in order, stops only at the end of the file, and returns what           *)
(* sha256_content_checksum returns for the whole content, whatever the     *)
(* block size.                                                             *)
(***************************************************************************)
ChecksumStreamsWholeFile ==
    /\ fed = SubSeq(f_data, 1, f_pos)
    /\ sum_pc \in {"eof", "returned"} => fed = f_data
    /\ sum_pc = "returned" =>
        /\ result = sha256_content_checksum(f_data)
        /\ result = sha256_checksum(f_data, bs)
        /\ \A n \in 1..MaxBlock : sha256_checksum(f_data, n) = result

ChecksumStreamsWholeFileWitness ==
    /\ sum_pc = "returned"
    /\ Len(f_data) = 3
    /\ bs = 2

(***************************************************************************)
(* C8.  No path in the archive or in the manifest holds an unresolved      *)
(* $DATA$ or $INFO$: the archive and the buffer start empty, and no step   *)
(* of the script adds an entry, adds text to the buffer or computes a      *)
(* destination with a placeholder in it.                                   *)
(***************************************************************************)
\* what a step added to the buffer, with the 5 characters before it
AddedText ==
    IF SubSeq(record', 1, Len(record)) = record
    THEN SubSeq(record', Max(1, Len(record) - 4), Len(record'))
    ELSE record'

PlaceholderStep ==
    /\ \A i \in DOMAIN wheel'.entries :
            (i > Len(wheel.entries) \/ wheel'.entries[i].name # wheel.entries[i].name)
                => ~Unresolved(wheel'.entries[i].name)
    /\ record' # record => ~Unresolved(AddedText)
    /\ destination' # destination => ~Unresolved(destination')

\* C8: no step brings a placeholder into the archive, the buffer or the
\* destination
NoPlaceholderLeft == [][PlaceholderStep]_vars

NoPlaceholderLeftWitness ==
    /\ pc = "done"
    /\ \A s \in Sources : In("$DATA$", files[s]) /\ HasEntry(Destination(s))
    /\ ~Unresolved(record)

(***************************************************************************)
(* C9.  On every exit path the archive handle has been closed by the       *)
(* script.  (The input handles are opened and closed inside one statement: *)
(* 'with open' in sha256_checksum, and the reads of getsize and write.)    *)
(***************************************************************************)
HandlesReleasedOnExit ==
    pc \in {"done", "aborted"} => wheel.fp # "open"

(***************************************************************************)
(* C10.  The RECORD buffer only grows at its end, and in every state the   *)
(* archive's entries other than RECORD are, in order, the paths of the     *)
(* buffer's lines, but for at most one last line not yet written.          *)
(***************************************************************************)
\* text from index i on is the lines of names[k], names[k + 1], ..., in
\* order, and after them at most one more line
RECURSIVE LinesLead(_, _, _, _)
LinesLead(text, i, names, k) ==
    IF k > Len(names)
    THEN i > Len(text) \/ ScanTo(text, "\n", i) = Len(text)
    ELSE /\ i + Len(names[k]) <= Len(text)
         /\ SubSeq(text, i, i + Len(names[k])) = names[k] \o ","
         /\ LET end == ScanTo(text, "\n", i + Len(names[k]) + 1)
            IN  end <= Len(text) /\ LinesLead(text, end + 1, names, k + 1)

ManifestLeads == LinesLead(record, 1, Written, 1)

OnlyAppended ==
    /\ Len(record') >= Len(record)
    /\ SubSeq(record', 1, Len(record)) = record

\* C10: the buffer's lines lead the archive's entries in every state, and
\* every step only appends to the buffer
ManifestLeadsArchive == []ManifestLeads /\ [][OnlyAppended]_vars

ManifestLeadsArchiveWitness ==
    /\ pc = "aborted"
    /\ Len(Written) = 4
    /\ Len(Paths(record)) = 5
    /\ Paths(record)[5] = destination

=============================================================================
